---- MODULE Spec2Model ----
(***************************************************************************)
(* A model of the finance-analyser service layer: the bank statement       *)
(* parser (processing_service.py), the transaction store                   *)
(* (transaction_service.py over the Transaction table of                   *)
(* models/transaction.py) and the pipeline (pipeline.py).                  *)
(*                                                                         *)
(* Conventions.                                                            *)
(*  - An Optional[T] value is a sequence of length at most one: None is    *)
(*    <<>> and a present value v is <<v>>.                                 *)
(*  - A float amount is the integer number of hundredths (100.00 is        *)
(*    10000).                                                              *)
(*  - A datetime is the integer yyyymmdd of its day (the parser only       *)
(*    produces midnights).                                                 *)
(*  - Text is drawn from a finite vocabulary; the string functions of the  *)
(*    code (strip, in, strptime, re.search, float) are tabulated on it.    *)
(***************************************************************************)
EXTENDS Integers, Sequences, FiniteSets, TLC

VARIABLES store, last

vars == <<store, last>>

None == <<>>
Some(v) == <<v>>

(***************************************************************************)
(* Bounds of the model.                                                    *)
(***************************************************************************)
MaxFileRows == 3
MaxId == 2
MaxBatch == 2
MaxRows == 3
MaxPageSize == 2
MaxFilters == 2

(***************************************************************************)
(* Text functions on the vocabulary.                                       *)
(***************************************************************************)

\* str.strip()
Strip(s) ==
    CASE s = "   " -> ""
      [] s = " 05 Jan 2024 " -> "05 Jan 2024"
      [] OTHER -> s

\* "Booking Date" in s
ContainsBookingDate(s) == s \in {"Booking Date", "Booking Date/Time"}

\* datetime.strptime(s, "%d %b %Y"): None stands for the ValueError
Strptime(s) ==
    CASE s = "05 Jan 2024" -> Some(20240105)
      [] s = "6 Jan 2024" -> Some(20240106)
      [] s = "06 Jan 2024" -> Some(20240106)
      [] OTHER -> None

\* one counter for all days, which C11_DayOrderAssignment tells from the day
\* key of the code
DayKeyShared(d) == "2024-01-05"

\* booking_date.strftime("%Y-%m-%d")
DayKey(d) ==
    CASE d = 20240105 -> "2024-01-05"
      [] d = 20240106 -> "2024-01-06"

DayKeys == {"2024-01-05", "2024-01-06"}

\* re.search(r"STAN\s*\((\d+)\)", description, re.IGNORECASE)
ExtractStanId(description) ==
    CASE description = "Payment STAN (123456)" -> Some("123456")
      [] description = "FBRTax stan(123456)" -> Some("123456")
      [] description = "POS STAN(777)" -> Some("777")
      [] OTHER -> None

\* any of FBRTax, Withholding Tax, Charges Taxes, CHG:.*Tax (re.IGNORECASE)
IsTaxTransaction(description) ==
    description \in {"FBRTax stan(123456)", "withholding tax", "CHG: SMS Tax"}

\* re.sub(r"[^\d.-]", "", value.strip())
Cleaned(value) ==
    CASE value = "100.00" -> "100.00"
      [] value = "1,000.00" -> "1000.00"
      [] value = "PKR 900.00" -> "900.00"
      [] value = "1.50" -> "1.50"
      [] value = "0.00" -> "0.00"
      [] value = "249.00" -> "249.00"
      [] value = "-100.00" -> "-100.00"
      [] value = "-" -> "-"
      [] value = "1.2.3" -> "1.2.3"
      [] value = "n/a" -> ""
      [] OTHER -> ""

\* float(cleaned), in hundredths: None stands for the ValueError
Float(cleaned) ==
    CASE cleaned = "100.00" -> Some(10000)
      [] cleaned = "1000.00" -> Some(100000)
      [] cleaned = "900.00" -> Some(90000)
      [] cleaned = "1.50" -> Some(150)
      [] cleaned = "0.00" -> Some(0)
      [] cleaned = "249.00" -> Some(24900)
      [] cleaned = "-100.00" -> Some(-10000)
      [] OTHER -> None

ParseAmount(value) ==
    IF value = "" \/ Strip(value) = ""
    THEN None
    ELSE IF Cleaned(value) = "" THEN None ELSE Float(Cleaned(value))

(***************************************************************************)
(* Statement parser: BankStatementProcessingService.                       *)
(***************************************************************************)

\* row[i] of the code (0-based) on a row that has it
Cell(row, i) == row[i + 1]

\* _parse_row: the record, None (the early return), or the exception raised;
\* day_counts is the defaultdict(int) after the call
ParseRow(row, day_counts) ==
    IF Len(row) < 2
    THEN [raised |-> "IndexError", transaction |-> None, day_counts |-> day_counts]
    ELSE
    LET booking_date_str == Strip(Cell(row, 0))
        value_date_str == Strip(Cell(row, 1))
        booking_date == Strptime(booking_date_str)
        value_date == Strptime(value_date_str)
    IN  IF booking_date_str = ""
        THEN [raised |-> "none", transaction |-> None, day_counts |-> day_counts]
        ELSE IF booking_date = None \/ value_date = None
        THEN [raised |-> "ValueError", transaction |-> None, day_counts |-> day_counts]
        ELSE
        LET day_key == DayKey(booking_date[1])
            counts == [day_counts EXCEPT ![day_key] = @ + 1]
            description == IF Len(row) > 3 THEN Strip(Cell(row, 3)) ELSE ""
            debit == IF Len(row) > 4 THEN ParseAmount(Cell(row, 4)) ELSE None
            credit == IF Len(row) > 5 THEN ParseAmount(Cell(row, 5)) ELSE None
            balance == IF Len(row) > 6 THEN ParseAmount(Cell(row, 6)) ELSE Some(0)
        IN  [raised |-> "none",
             transaction |-> Some(
                [booking_date_time |-> booking_date[1],
                 value_date_time |-> value_date[1],
                 day_order_id |-> counts[day_key],
                 bank_statement_description |-> description,
                 stan_id |-> ExtractStanId(description),
                 debit |-> debit,
                 credit |-> credit,
                 available_balance |-> IF balance = None THEN 0 ELSE balance[1],
                 is_taxes |-> IsTaxTransaction(description)]),
             day_counts |-> counts]

\* a header search that takes the row at i whatever it holds, which
\* C9_HeaderOrFormatError tells from the search of the code
HeaderIdxAtStart(rows, i) == IF i > Len(rows) THEN 0 ELSE i

\* index (1-based) of the first row whose first cell contains "Booking Date";
\* 0 when there is none
RECURSIVE HeaderIdx(_, _)
HeaderIdx(rows, i) ==
    IF i > Len(rows) THEN 0
    ELSE IF rows[i] # <<>> /\ ContainsBookingDate(Cell(rows[i], 0)) THEN i
    ELSE HeaderIdx(rows, i + 1)

\* the loop of extract over rows[header_idx + 1:], from row i on
RECURSIVE ExtractRows(_, _, _, _)
ExtractRows(rows, i, day_counts, transactions) ==
    IF i > Len(rows)
    THEN [raised |-> "none", transactions |-> transactions]
    ELSE IF rows[i] = <<>>
    THEN [raised |-> "IndexError", transactions |-> <<>>]
    ELSE IF Cell(rows[i], 0) = "" \/ Strip(Cell(rows[i], 0)) = ""
    THEN ExtractRows(rows, i + 1, day_counts, transactions)
    ELSE
    LET p == ParseRow(rows[i], day_counts)
    IN  IF p.raised \in {"ValueError", "IndexError"} \/ p.transaction = None
        THEN ExtractRows(rows, i + 1, p.day_counts, transactions)
        ELSE ExtractRows(rows, i + 1, p.day_counts,
                         Append(transactions, p.transaction[1]))

\* extract(csv_path), on the rows csv.reader gives for the file
Extract(rows) ==
    LET header_idx == HeaderIdx(rows, 1)
    IN  IF header_idx = 0
        THEN [raised |-> "ValueError", transactions |-> <<>>]
        ELSE ExtractRows(rows, header_idx + 1, [k \in DayKeys |-> 0], <<>>)

(***************************************************************************)
(* The Transaction table (models/transaction.py) and a session on it.      *)
(***************************************************************************)

Fields ==
    {"id", "booking_date_time", "value_date_time", "day_order_id",
     "bank_statement_description", "stan_id", "debit", "credit",
     "available_balance", "description", "category", "originator_name",
     "group_name", "is_taxes"}

\* the Field(default=...) of the columns a record may leave out
Defaults ==
    [day_order_id |-> 0, stan_id |-> None, debit |-> None, credit |-> None,
     description |-> None, category |-> None, originator_name |-> None,
     group_name |-> None, is_taxes |-> FALSE]

Ids(db) == {r.id : r \in db}

Max(S) == CHOOSE m \in S : \A x \in S : x <= m

\* the rowid SQLite gives a row inserted with id NULL
NextId(db) == IF db = {} THEN 1 ELSE Max(Ids(db)) + 1

\* Transaction(**txn_data), flushed with the id the table assigns
Transaction(txn_data, id) ==
    [f \in Fields |->
        IF f = "id" THEN id
        ELSE IF f \in DOMAIN txn_data THEN txn_data[f]
        ELSE Defaults[f]]

\* the primary key of the table: no two rows with one id
PrimaryKeyOk(db) == \A a, b \in db : a.id = b.id => a = b

\* a lookup on booking_date_time alone, which C1_IdempotentImport tells from
\* the lookup of the code
ExistingByDay(db, txn_data) ==
    {r \in db : r.booking_date_time = txn_data.booking_date_time}

\* select(Transaction).where(booking_date_time == .., day_order_id == ..)
ExistingByKey(db, txn_data) ==
    {r \in db : /\ r.booking_date_time = txn_data.booking_date_time
                /\ r.day_order_id = txn_data.day_order_id}

\* for key, value in updates.items(): if hasattr(...): setattr(...)
SetAttrs(transaction, updates) ==
    [f \in Fields |->
        IF f \in DOMAIN updates THEN updates[f] ELSE transaction[f]]

(***************************************************************************)
(* TransactionService.                                                     *)
(***************************************************************************)

\* an insert loop that overwrites the stored row of a key with the incoming
\* record, which C3_InsertKeepsExistingRows tells from the loop of the code
RECURSIVE UpsertLoop(_, _, _, _)
UpsertLoop(db, transactions, i, inserted) ==
    IF i > Len(transactions)
    THEN [store |-> db, ret |-> inserted, raised |-> "none"]
    ELSE IF {r \in db : /\ r.booking_date_time = transactions[i].booking_date_time
                        /\ r.day_order_id = transactions[i].day_order_id} = {}
    THEN UpsertLoop(db \cup {Transaction(transactions[i], NextId(db))},
                    transactions, i + 1, inserted + 1)
    ELSE UpsertLoop({IF /\ r.booking_date_time = transactions[i].booking_date_time
                        /\ r.day_order_id = transactions[i].day_order_id
                     THEN Transaction(transactions[i], r.id) ELSE r : r \in db},
                    transactions, i + 1, inserted)

\* an insert loop that counts every record, stored or not, which
\* C16_PipelineOrderAndCounts tells from the loop of the code
RECURSIVE CountAllLoop(_, _, _, _)
CountAllLoop(db, transactions, i, inserted) ==
    IF i > Len(transactions)
    THEN [store |-> db, ret |-> inserted, raised |-> "none"]
    ELSE IF {r \in db : /\ r.booking_date_time = transactions[i].booking_date_time
                        /\ r.day_order_id = transactions[i].day_order_id} = {}
    THEN CountAllLoop(db \cup {Transaction(transactions[i], NextId(db))},
                      transactions, i + 1, inserted + 1)
    ELSE CountAllLoop(db, transactions, i + 1, inserted + 1)

\* an insert loop that adds every record without looking it up, which
\* C26_BatchDuplicatesDeduplicated tells from the loop of the code
RECURSIVE InsertAllLoop(_, _, _, _)
InsertAllLoop(db, transactions, i, inserted) ==
    IF i > Len(transactions)
    THEN [store |-> db, ret |-> inserted, raised |-> "none"]
    ELSE InsertAllLoop(db \cup {Transaction(transactions[i], NextId(db))},
                       transactions, i + 1, inserted + 1)

\* the keys txn_data[...] reads while the lookup is built
LookupKeys == {"booking_date_time", "day_order_id"}

\* the loop of insert_transactions from record i on; db is what the session
\* sees (a query flushes the rows added before it).  A record without one of
\* the lookup keys raises KeyError where the lookup is built.
RECURSIVE InsertLoop(_, _, _, _)
InsertLoop(db, transactions, i, inserted) ==
    IF i > Len(transactions)
    THEN [store |-> db, ret |-> inserted, raised |-> "none"]
    ELSE IF ~(LookupKeys \subseteq DOMAIN transactions[i])
    THEN [store |-> db, ret |-> inserted, raised |-> "KeyError"]
    ELSE IF ExistingByKey(db, transactions[i]) = {}
    THEN InsertLoop(db \cup {Transaction(transactions[i], NextId(db))},
                    transactions, i + 1, inserted + 1)
    ELSE InsertLoop(db, transactions, i + 1, inserted)

\* insert_transactions: the one commit stands after the loop; an exception
\* leaves the with block before it, and closing the session rolls back the
\* rows the loop added
InsertTransactionsResult(db, transactions) ==
    LET r == InsertLoop(db, transactions, 1, 0)
    IN  IF r.raised = "none" THEN r
        ELSE [store |-> db, ret |-> r.ret, raised |-> r.raised]

\* update_transaction_by_id: the commit fails on the primary key when the
\* updates give the row the id of another row, and nothing is written
UpdateTransactionByIdResult(db, transaction_id, updates) ==
    IF transaction_id \notin Ids(db)
    THEN [store |-> db, ret |-> FALSE, raised |-> "none"]
    ELSE
    LET transaction == CHOOSE r \in db : r.id = transaction_id
        written == (db \ {transaction}) \cup {SetAttrs(transaction, updates)}
    IN  IF SetAttrs(transaction, updates).id \in Ids(db \ {transaction})
        THEN [store |-> db, ret |-> FALSE, raised |-> "IntegrityError"]
        ELSE [store |-> written, ret |-> TRUE, raised |-> "none"]

\* delete_transaction
DeleteTransactionResult(db, transaction_id) ==
    IF transaction_id \notin Ids(db)
    THEN [store |-> db, ret |-> FALSE, raised |-> "none"]
    ELSE [store |-> {r \in db : r.id # transaction_id},
          ret |-> TRUE, raised |-> "none"]

\* get_all_categories: the distinct categories that are not NULL, without
\* those the comprehension's `if c` drops
GetAllCategories(db) ==
    {r.category[1] : r \in {x \in db : x.category # None /\ x.category[1] # ""}}

\* A session's view of the table in update_transactions_bulk: each row with
\* the key the identity map holds it under (its id as last flushed), its
\* attributes as set so far, and whether this session has loaded it.
SessionOf(db) == {[key |-> r.id, cur |-> r, loaded |-> FALSE] : r \in db}

\* the flush writes every pending change; the primary key rejects it when two
\* rows would hold one id
FlushOk(objs) == Cardinality({o.cur.id : o \in objs}) = Cardinality(objs)

Flushed(objs) == {[key |-> o.cur.id, cur |-> o.cur, loaded |-> o.loaded] : o \in objs}

\* the loop of update_transactions_bulk from id i on, then the commit.
\* session.get answers from the identity map when the session already holds
\* a row under that key, and otherwise flushes and queries the table.
RECURSIVE BulkLoop(_, _, _, _, _, _)
BulkLoop(db, objs, transaction_ids, updates, i, updated) ==
    IF i > Len(transaction_ids)
    THEN IF FlushOk(objs)
         THEN [store |-> {o.cur : o \in objs}, ret |-> updated, raised |-> "none"]
         ELSE [store |-> db, ret |-> 0, raised |-> "IntegrityError"]
    ELSE
    LET txn_id == transaction_ids[i]
        held == {o \in objs : o.loaded /\ o.key = txn_id}
    IN  IF held # {}
        THEN LET o == CHOOSE x \in held : TRUE
             IN  BulkLoop(db,
                          (objs \ {o}) \cup {[o EXCEPT !.cur = SetAttrs(o.cur, updates)]},
                          transaction_ids, updates, i + 1, updated + 1)
        ELSE IF ~FlushOk(objs)
        THEN [store |-> db, ret |-> 0, raised |-> "IntegrityError"]
        ELSE
        LET found == {o \in Flushed(objs) : o.key = txn_id}
        IN  IF found = {}
            THEN BulkLoop(db, Flushed(objs), transaction_ids, updates, i + 1, updated)
            ELSE LET o == CHOOSE x \in found : TRUE
                 IN  BulkLoop(db,
                              (Flushed(objs) \ {o}) \cup
                                  {[key |-> o.key, cur |-> SetAttrs(o.cur, updates),
                                    loaded |-> TRUE]},
                              transaction_ids, updates, i + 1, updated + 1)

UpdateTransactionsBulkResult(db, transaction_ids, updates) ==
    BulkLoop(db, SessionOf(db), transaction_ids, updates, 1, 0)

\* Transaction.description.ilike(f"%{pattern}%"): a case-insensitive
\* substring match
ILike(text, pattern) ==
    <<text, pattern>> \in
        {<<"Lunch at cafe", "LUNCH">>, <<"Lunch at cafe", "cafe">>,
         <<"ACME Corp", "acme">>}

DefaultPageSize == 20

\* truthiness of an optional text, number or datetime argument
TruthyText(o) == o # None /\ o[1] # ""
TruthyInt(o) == o # None /\ o[1] # 0
TruthyDate(o) == o # None

\* the where clauses of query (lines 40-60)
QueryMatches(r, q) ==
    /\ q.include_taxes_nested => r.is_taxes = FALSE
    /\ TruthyDate(q.start_date) => r.booking_date_time >= q.start_date[1]
    /\ TruthyDate(q.end_date) => r.booking_date_time <= q.end_date[1]
    /\ TruthyText(q.category) => r.category = q.category
    /\ TruthyText(q.custom_name) =>
          r.description # None /\ ILike(r.description[1], q.custom_name[1])
    /\ TruthyText(q.name) =>
          r.originator_name # None /\ ILike(r.originator_name[1], q.name[1])
    /\ TruthyInt(q.transaction_id) => r.id = q.transaction_id[1]
    /\ q.only_annotated => r.description # None /\ r.category # None

\* the where clauses of count_query (lines 63-78)
CountQueryMatches(r, q) ==
    /\ q.include_taxes_nested => r.is_taxes = FALSE
    /\ TruthyDate(q.start_date) => r.booking_date_time >= q.start_date[1]
    /\ TruthyDate(q.end_date) => r.booking_date_time <= q.end_date[1]
    /\ TruthyText(q.category) => r.category = q.category
    /\ q.only_annotated => r.description # None /\ r.category # None

\* an order with day_order_id ascending, which C5_ReadOrdering tells from the
\* order of the code
PrecedesDayAscending(a, b, tie) ==
    \/ a.booking_date_time > b.booking_date_time
    \/ /\ a.booking_date_time = b.booking_date_time
       /\ a.day_order_id < b.day_order_id
    \/ /\ a.booking_date_time = b.booking_date_time
       /\ a.day_order_id = b.day_order_id
       /\ IF tie = "asc" THEN a.id < b.id ELSE a.id > b.id

\* order_by(booking_date_time.desc(), day_order_id.desc()); rows equal in both
\* come in the order the engine's scan gives them, by rowid one way or the other
Precedes(a, b, tie) ==
    \/ a.booking_date_time > b.booking_date_time
    \/ /\ a.booking_date_time = b.booking_date_time
       /\ a.day_order_id > b.day_order_id
    \/ /\ a.booking_date_time = b.booking_date_time
       /\ a.day_order_id = b.day_order_id
       /\ IF tie = "asc" THEN a.id < b.id ELSE a.id > b.id

RECURSIVE OrderBy(_, _)
OrderBy(rows, tie) ==
    IF rows = {} THEN <<>>
    ELSE LET head == CHOOSE r \in rows : \A x \in rows \ {r} : Precedes(r, x, tie)
         IN  <<head>> \o OrderBy(rows \ {head}, tie)

Min(a, b) == IF a <= b THEN a ELSE b

\* offset(offset).limit(page_size)
OffsetLimit(rows, offset, limit) ==
    IF offset >= Len(rows) THEN <<>>
    ELSE SubSeq(rows, offset + 1, Min(offset + limit, Len(rows)))

\* a nesting that puts the date range of the query on the tax rows too, which
\* C6_TaxNesting tells from the nesting of the code
WithRelatedTaxesInRange(db, txn, q) ==
    [txn |-> txn,
     related_taxes |->
        IF q.include_taxes_nested /\ TruthyText(txn.stan_id)
        THEN {t \in db : /\ t.is_taxes = TRUE
                         /\ t.stan_id = txn.stan_id
                         /\ TruthyDate(q.start_date) =>
                               t.booking_date_time >= q.start_date[1]
                         /\ TruthyDate(q.end_date) =>
                               t.booking_date_time <= q.end_date[1]}
        ELSE {}]

\* txn.model_dump() with the related_taxes of lines 99-110
WithRelatedTaxes(db, txn, q) ==
    [txn |-> txn,
     related_taxes |->
        IF q.include_taxes_nested /\ TruthyText(txn.stan_id)
        THEN {t \in db : t.is_taxes = TRUE /\ t.stan_id = txn.stan_id}
        ELSE {}]

TotalPages(total, page_size) ==
    IF total > 0 THEN (total + page_size - 1) \div page_size ELSE 1

\* read_transactions
ReadTransactions(db, q, tie) ==
    LET page_size == IF q.page_size = None THEN DefaultPageSize ELSE q.page_size[1]
        total == Cardinality({r \in db : CountQueryMatches(r, q)})
        ordered == OrderBy({r \in db : QueryMatches(r, q)}, tie)
        offset == (q.page - 1) * page_size
        transactions == OffsetLimit(ordered, offset, page_size)
    IN  [transactions |->
            [i \in 1..Len(transactions) |-> WithRelatedTaxes(db, transactions[i], q)],
         total |-> total,
         page |-> q.page,
         page_size |-> page_size,
         total_pages |-> TotalPages(total, page_size)]

(***************************************************************************)
(* AnalyticsService.  An amount is a number of hundredths; the amounts of   *)
(* the vocabulary are exact as doubles, and so are their sums.  A quotient *)
(* the code computes is kept as the fraction in lowest terms it rounds.    *)
(***************************************************************************)

\* start_date / end_date of the analytics queries
InRange(r, start_date, end_date) ==
    /\ TruthyDate(start_date) => r.booking_date_time >= start_date[1]
    /\ TruthyDate(end_date) => r.booking_date_time <= end_date[1]

\* sum(t.<field> for t in transactions if t.<field>)
RECURSIVE SumOf(_, _)
SumOf(rows, field) ==
    IF rows = {} THEN 0
    ELSE LET t == CHOOSE r \in rows : TRUE
         IN  (IF t[field] # None /\ t[field][1] # 0 THEN t[field][1] ELSE 0)
             + SumOf(rows \ {t}, field)

\* a total over all dates, which C12_RatioByCases tells from the total of
\* the code
GetTotalExpenditureAllDates(db, start_date, end_date) ==
    SumOf({r \in db : r.debit # None}, "debit")

\* get_total_expenditure
GetTotalExpenditure(db, start_date, end_date) ==
    SumOf({r \in db : r.debit # None /\ InRange(r, start_date, end_date)}, "debit")

\* get_total_income
GetTotalIncome(db, start_date, end_date) ==
    SumOf({r \in db : r.credit # None /\ InRange(r, start_date, end_date)}, "credit")

Abs(n) == IF n < 0 THEN -n ELSE n

RECURSIVE Gcd(_, _)
Gcd(a, b) == IF b = 0 THEN a ELSE Gcd(b, a % b)

\* a / b for b # 0
Quotient(a, b) ==
    LET g == Gcd(Abs(a), Abs(b))
        sign == IF b < 0 THEN -1 ELSE 1
    IN  [num |-> sign * (a \div g), den |-> sign * (b \div g)]

\* float("inf") and 0.0
Infinity == [num |-> 1, den |-> 0]
Zero == [num |-> 0, den |-> 1]

\* get_income_expenditure_ratio
GetIncomeExpenditureRatio(db, start_date, end_date) ==
    LET income == GetTotalIncome(db, start_date, end_date)
        expenditure == GetTotalExpenditure(db, start_date, end_date)
    IN  IF expenditure = 0
        THEN IF income > 0 THEN Infinity ELSE Zero
        ELSE Quotient(income, expenditure)

\* t.category or "Uncategorized"
CategoryOf(t) == IF TruthyText(t.category) THEN t.category[1] ELSE "Uncategorized"

\* the dict a loop of "if t.<field>: by_cat[cat] += t.<field>" leaves
ByCategory(rows, field) ==
    LET counted == {t \in rows : t[field] # None /\ t[field][1] # 0}
    IN  [cat \in {CategoryOf(t) : t \in counted} |->
            SumOf({t \in counted : CategoryOf(t) = cat}, field)]

RECURSIVE SumValues(_, _)
SumValues(f, keys) ==
    IF keys = {} THEN 0
    ELSE LET k == CHOOSE x \in keys : TRUE
         IN  f[k] + SumValues(f, keys \ {k})

\* sum(by_cat.values()) or 1: the 1 is one unit, a hundred hundredths
TotalOr1(by_cat) ==
    IF SumValues(by_cat, DOMAIN by_cat) = 0 THEN 100
    ELSE SumValues(by_cat, DOMAIN by_cat)

\* get_percentile_breakdown
GetPercentileBreakdown(db, start_date, end_date) ==
    LET transactions == {r \in db : InRange(r, start_date, end_date)}
        expenditure_by_cat == ByCategory(transactions, "debit")
        income_by_cat == ByCategory(transactions, "credit")
        total_exp == TotalOr1(expenditure_by_cat)
        total_inc == TotalOr1(income_by_cat)
    IN  [expenditure_by_category |->
            [cat \in DOMAIN expenditure_by_cat |->
                Quotient(expenditure_by_cat[cat] * 100, total_exp)],
         income_by_category |->
            [cat \in DOMAIN income_by_cat |->
                Quotient(income_by_cat[cat] * 100, total_inc)],
         total_expenditure |-> total_exp,
         total_income |-> total_inc]

\* statistics.stdev(debits), kept as the call on the values with their counts
Stdev(debits) ==
    [stdev_of |-> [v \in {t.debit[1] : t \in debits} |->
                      Cardinality({t \in debits : t.debit[1] = v})]]

\* get_expenditure_stats
GetExpenditureStats(db, start_date, end_date) ==
    LET transactions == {r \in db : r.debit # None /\ InRange(r, start_date, end_date)}
        debits == {t \in transactions : t.debit[1] # 0}
        n == Cardinality(debits)
        total == SumOf(debits, "debit")
    IN  IF debits = {}
        THEN [min |-> Zero, max |-> Zero, std_dev |-> Zero, mean |-> Zero]
        ELSE [min |-> Quotient(
                  CHOOSE v \in {t.debit[1] : t \in debits} :
                      \A t \in debits : v <= t.debit[1], 1),
              max |-> Quotient(
                  CHOOSE v \in {t.debit[1] : t \in debits} :
                      \A t \in debits : v >= t.debit[1], 1),
              std_dev |-> IF n > 1 THEN Stdev(debits) ELSE Zero,
              mean |-> Quotient(total, n)]

\* a month of thirty days whatever the month, which C15_ForecastRounded
\* tells from the calendar of the code
MonthRangeThirty(year, month) == 30

\* calendar.monthrange(year, month)[1]
MonthRange(year, month) ==
    CASE year = 2024 /\ month = 1 -> 31
      [] year = 2024 /\ month = 2 -> 29

\* a date yyyymmdd
Date(year, month, day) == year * 10000 + month * 100 + day
YearOf(date) == date \div 10000
MonthOf(date) == (date \div 100) % 100
DayOf(date) == date % 100

\* by how many units in the last place the double q * n lies off the double
\* nearest to the product of the fraction q rounds and n: (249.0 / 31) * 31
\* is 249.00000000000003, (149.0 / 5) * 31 is 923.8000000000001 and
\* (349.0 / 5) * 31 is 2163.7999999999997
ProductUlps(q, n) ==
    CASE q = [num |-> 24900, den |-> 31] /\ n = 31 -> 1
      [] q = [num |-> 2980, den |-> 1] /\ n = 31 -> 1
      [] q = [num |-> 6980, den |-> 1] /\ n = 31 -> -1
      [] OTHER -> 0

\* the double daily_mean * last_day
Times(q, n) ==
    [num |-> Quotient(q.num * n, q.den).num,
     den |-> Quotient(q.num * n, q.den).den,
     ulps |-> ProductUlps(q, n)]

\* get_monthly_forecast(year, month), today being datetime.now()
GetMonthlyForecast(db, year, month, today) ==
    LET start_date == Date(year, month, 1)
        last_day == MonthRange(year, month)
        end_date == Date(year, month, last_day)
        days_elapsed ==
            IF YearOf(today) = year /\ MonthOf(today) = month THEN DayOf(today)
            ELSE IF today > end_date THEN last_day
            ELSE 0
        transactions == {r \in db : /\ r.debit # None
                                    /\ r.booking_date_time >= start_date
                                    /\ r.booking_date_time <= end_date}
        current_total == SumOf(transactions, "debit")
        daily_mean == IF days_elapsed > 0
                      THEN Quotient(current_total, days_elapsed)
                      ELSE Zero
    IN  [daily_mean |-> daily_mean,
         days_elapsed |-> days_elapsed,
         days_in_month |-> last_day,
         current_total |-> current_total,
         forecasted_total |-> IF days_elapsed > 0
                              THEN Times(daily_mean, last_day)
                              ELSE [num |-> 0, den |-> 1, ulps |-> 0]]

(***************************************************************************)
(* TransactionAnnotationService.  llm is what the language model is to the *)
(* service during one call: "no_key" when settings.openai_api_key is not   *)
(* set, "json" when it answers with the JSON asked for, "text" when its    *)
(* answer is not JSON.                                                     *)
(***************************************************************************)

LLMs == {"no_key", "json", "text"}

\* _get_llm
GetLlm(llm) == IF llm = "no_key" THEN "ValueError" ELSE "none"

\* annotate_transaction(description)
AnnotateTransaction(description, llm) ==
    IF GetLlm(llm) # "none"
    THEN [raised |-> GetLlm(llm), annotations |-> << >>]
    ELSE IF llm = "json"
    THEN [raised |-> "none",
          annotations |-> [description |-> Some("Lunch at cafe"),
                           category |-> Some("Food"),
                           originator_name |-> Some("ACME Corp"),
                           is_taxes |-> FALSE]]
    ELSE [raised |-> "none",
          annotations |-> [description |-> Some(description),
                           category |-> Some("Other"),
                           originator_name |-> None,
                           is_taxes |-> FALSE]]

\* the loop of annotate_batch from transaction_ids[i] on; any exception of
\* annotate_transaction is caught and the loop goes on
RECURSIVE AnnotateLoop(_, _, _, _, _)
AnnotateLoop(db, transaction_ids, i, llm, annotated) ==
    IF i > Len(transaction_ids)
    THEN [store |-> db, ret |-> annotated, raised |-> "none"]
    ELSE IF transaction_ids[i] \notin Ids(db)
    THEN AnnotateLoop(db, transaction_ids, i + 1, llm, annotated)
    ELSE
    LET transaction == CHOOSE r \in db : r.id = transaction_ids[i]
        a == AnnotateTransaction(transaction.bank_statement_description, llm)
    IN  IF TruthyText(transaction.description) /\ TruthyText(transaction.category)
        THEN AnnotateLoop(db, transaction_ids, i + 1, llm, annotated)
        ELSE IF a.raised # "none"
        THEN AnnotateLoop(db, transaction_ids, i + 1, llm, annotated)
        ELSE AnnotateLoop((db \ {transaction}) \cup
                              {SetAttrs(transaction, a.annotations)},
                          transaction_ids, i + 1, llm, annotated + 1)

\* annotate_batch(transaction_ids)
AnnotateBatch(db, transaction_ids, llm) ==
    AnnotateLoop(db, transaction_ids, 1, llm, 0)

\* the ids of S in rowid order
RECURSIVE Ascending(_)
Ascending(S) ==
    IF S = {} THEN <<>>
    ELSE LET least == CHOOSE x \in S : \A y \in S : x <= y
         IN  <<least>> \o Ascending(S \ {least})

\* annotate_all_unannotated
AnnotateAllUnannotated(db, llm) ==
    LET ids == Ascending({r.id : r \in {x \in db : x.description = None
                                                   \/ x.category = None}})
    IN  AnnotateBatch(db, ids, llm)

(***************************************************************************)
(* TransactionPipeline.                                                    *)
(***************************************************************************)

\* process(csv_path, annotate): extract, then insert, then annotate when
\* asked; an exception of extract leaves before insert_transactions is called.
\* calls lists the service calls process makes, in the order it makes them.
ProcessResult(db, rows, annotate, llm) ==
    LET ex == Extract(rows)
        ins == InsertTransactionsResult(db, ex.transactions)
        ann == AnnotateAllUnannotated(ins.store, llm)
    IN  IF ex.raised # "none"
        THEN [store |-> db, raised |-> ex.raised, insert_called |-> FALSE,
              calls |-> <<[fn |-> "extract"]>>,
              transactions |-> <<>>,
              ret |-> [extracted |-> 0, inserted |-> 0, annotated |-> 0]]
        ELSE IF annotate
        THEN [store |-> ann.store, raised |-> ann.raised, insert_called |-> TRUE,
              calls |-> <<[fn |-> "extract"],
                          [fn |-> "insert_transactions",
                           transactions |-> ex.transactions],
                          [fn |-> "annotate_all_unannotated"]>>,
              transactions |-> ex.transactions,
              ret |-> [extracted |-> Len(ex.transactions),
                       inserted |-> ins.ret, annotated |-> ann.ret]]
        ELSE [store |-> ins.store, raised |-> ins.raised, insert_called |-> TRUE,
              calls |-> <<[fn |-> "extract"],
                          [fn |-> "insert_transactions",
                           transactions |-> ex.transactions]>>,
              transactions |-> ex.transactions,
              ret |-> [extracted |-> Len(ex.transactions),
                       inserted |-> ins.ret, annotated |-> 0]]

(***************************************************************************)
(* Inputs.                                                                 *)
(***************************************************************************)

SeqsUpTo(S, n) == UNION {[1..k -> S] : k \in 0..n}

HeaderRow ==
    <<"Booking Date", "Value Date", "", "Description", "Debit", "Credit", "Balance">>

PaymentRow ==
    <<"05 Jan 2024", "05 Jan 2024", "", "Payment STAN (123456)", "100.00", "", "PKR 900.00">>

TaxRow ==
    <<"6 Jan 2024", "06 Jan 2024", "", "FBRTax stan(123456)", "1.50", "", "0.00">>

SalaryRow ==
    <<"06 Jan 2024", "06 Jan 2024", "", "Salary", "", "1,000.00", "1,000.00">>

PreambleRow == <<"Account Statement">>

\* the rows of the statements the store specifications import
ImportRows == {HeaderRow, PreambleRow, SalaryRow}

ImportFiles == SeqsUpTo(ImportRows, MaxFileRows)

RecordsOf(files) ==
    UNION {{Extract(f).transactions[i] : i \in 1..Len(Extract(f).transactions)}
           : f \in files}

IdSet == 1..MaxId

\* the records and field updates of the store specification
StoreRecords == RecordsOf(SeqsUpTo({HeaderRow, PaymentRow}, MaxFileRows))

\* a record a caller built without its day_order_id
KeylessRecord ==
    [booking_date_time |-> 20240105, value_date_time |-> 20240105,
     bank_statement_description |-> "POS STAN(123456)",
     available_balance |-> 100000]

Batches == SeqsUpTo(StoreRecords \cup {KeylessRecord}, MaxBatch)

Updates ==
    {[id |-> v] : v \in IdSet} \cup
    {[day_order_id |-> 1], [category |-> Some("Food")],
     [category |-> Some("Groceries")], [nickname |-> "x"]}

(***************************************************************************)
(* Operations of the service layer as actions.  last records the call just *)
(* made and what it returned or raised.                                    *)
(***************************************************************************)

\* none of the records' keys is in the table
Fresh(db, transactions) ==
    \A i \in 1..Len(transactions) : ExistingByKey(db, transactions[i]) = {}

\* some record meets a stored row of its key that differs from it elsewhere
Clash(db, transactions) ==
    \E i \in 1..Len(transactions) :
        \E r \in ExistingByKey(db, transactions[i]) :
            r # Transaction(transactions[i], r.id)

\* the ids the call assigns stay within cap
Room(transactions, cap) == NextId(store) + Len(transactions) - 1 <= cap

InsertTransactions(transactions) ==
    LET r == InsertTransactionsResult(store, transactions)
    IN  /\ store' = r.store
        /\ last' = [op |-> "insert", transactions |-> transactions,
                    ret |-> r.ret, raised |-> r.raised]

\* process without annotation, and with it under each language model
Modes ==
    {[annotate |-> FALSE, llm |-> "no_key"]} \cup
    {[annotate |-> TRUE, llm |-> l] : l \in LLMs}

\* the rows the call would leave keep their ids within cap
Within(r, cap) == Ids(r.store) \subseteq 1..cap

Process(rows, annotate, llm) ==
    LET r == ProcessResult(store, rows, annotate, llm)
    IN  /\ Within(r, MaxId)
        /\ store' = r.store
        /\ last' = [op |-> "process", annotate |-> annotate, llm |-> llm,
                    ret |-> r.ret, raised |-> r.raised,
                    insert_called |-> r.insert_called,
                    fresh |-> Fresh(store, r.transactions),
                    clash |-> Clash(store, r.transactions)]

UpdateTransactionById(transaction_id, updates) ==
    LET r == UpdateTransactionByIdResult(store, transaction_id, updates)
    IN  /\ store' = r.store
        /\ last' = [op |-> "update", transaction_id |-> transaction_id,
                    updates |-> updates, ret |-> r.ret, raised |-> r.raised]

UpdateTransactionsBulk(transaction_ids, updates) ==
    LET r == UpdateTransactionsBulkResult(store, transaction_ids, updates)
    IN  /\ store' = r.store
        /\ last' = [op |-> "bulk", transaction_ids |-> transaction_ids,
                    updates |-> updates,
                    ret |-> r.ret, raised |-> r.raised]

DeleteTransaction(transaction_id) ==
    LET r == DeleteTransactionResult(store, transaction_id)
    IN  /\ store' = r.store
        /\ last' = [op |-> "delete", transaction_id |-> transaction_id,
                    ret |-> r.ret, raised |-> r.raised]

Init ==
    /\ store = {}
    /\ last = [op |-> "init"]

(***************************************************************************)
(* Spec: the store under any sequence of inserts, updates and deletes.     *)
(***************************************************************************)

Next ==
    \/ \E transactions \in Batches :
          Room(transactions, MaxId) /\ InsertTransactions(transactions)
    \/ \E transaction_id \in 0..MaxId, updates \in Updates :
          UpdateTransactionById(transaction_id, updates)
    \/ \E transaction_ids \in SeqsUpTo(IdSet, MaxBatch), updates \in Updates :
          UpdateTransactionsBulk(transaction_ids, updates)
    \/ \E transaction_id \in 0..MaxId : DeleteTransaction(transaction_id)

Spec == Init /\ [][Next]_vars

(***************************************************************************)
(* SpecImport: statements imported through the pipeline, rows deleted.     *)
(***************************************************************************)

NextImport ==
    \/ \E rows \in ImportFiles, mode \in Modes :
          Process(rows, mode.annotate, mode.llm)
    \/ \E transaction_id \in IdSet : DeleteTransaction(transaction_id)

SpecImport == Init /\ [][NextImport]_vars

(***************************************************************************)
(* Claims about the store under Spec.                                      *)
(***************************************************************************)

SameKey(a, b) ==
    /\ a.booking_date_time = b.booking_date_time
    /\ a.day_order_id = b.day_order_id

\* C2: in every store state reachable by insert_transactions,
\* update_transaction_by_id, update_transactions_bulk and delete_transaction
\* no two stored transactions share both booking_date_time and day_order_id.
C2_KeyUnique == \A a, b \in store : SameKey(a, b) => a = b

\* C7: update_transaction_by_id and delete_transaction with an id that is not
\* stored return False, raise nothing and leave the store as it was; with a
\* stored id they return True, and delete removes exactly that row.
C7_NotFoundIsBoolean ==
    [][last'.op \in {"update", "delete"} =>
        LET transaction_id == last'.transaction_id
        IN  /\ last'.raised = "none"
            /\ transaction_id \notin Ids(store) =>
                  last'.ret = FALSE /\ store' = store
            /\ transaction_id \in Ids(store) =>
                  /\ last'.ret = TRUE
                  /\ last'.op = "delete" =>
                        store' = {r \in store : r.id # transaction_id}]_vars

\* C8: no update_transaction_by_id, update_transactions_bulk or
\* insert_transactions call changes the id of a stored transaction (every id
\* stored before the call is stored after it), and no two stored transactions
\* ever have the same id.
C8_IdImmutableUnique ==
    [][/\ PrimaryKeyOk(store')
       /\ last'.op \in {"update", "bulk", "insert"} =>
             Ids(store) \subseteq Ids(store')]_vars

\* the records of the batch the loop took up before the one that raised:
\* those before the first record without a lookup key
Processed(transactions) ==
    {i \in 1..Len(transactions) :
        \A j \in 1..i : LookupKeys \subseteq DOMAIN transactions[j]}

\* C20: when insert_transactions raises at the n-th record of a batch, the
\* records of the batch processed before it are stored after the call exits.
C20_NoPartialRollback ==
    [][(last'.op = "insert" /\ last'.raised # "none") =>
          \A i \in Processed(last'.transactions) :
              ExistingByKey(store', last'.transactions[i]) # {}]_vars

\* C23: update_transactions_bulk applies the updates to every stored
\* transaction whose id occurs in ids, leaves every other stored transaction
\* unchanged, skips ids that are not stored, and returns the number of
\* distinct stored transactions it updated.
C23_BulkUpdateCountAndEffect ==
    [][last'.op = "bulk" =>
        LET ids == {last'.transaction_ids[i] : i \in 1..Len(last'.transaction_ids)}
            hit == {r \in store : r.id \in ids}
        IN  /\ last'.raised = "none"
            /\ last'.ret = Cardinality(hit)
            /\ last'.ret <= Cardinality(store)
            /\ store' = (store \ hit) \cup {SetAttrs(r, last'.updates) : r \in hit}]_vars

\* the enumeration the annotation prompt names
Categories ==
    {"Food", "Transport", "Shopping", "Bills", "Transfer", "Salary",
     "Entertainment", "ATM", "Subscription", "Government", "Other"}

\* C24: in every reachable store each transaction's category is null or one of
\* the enumeration, and get_all_categories returns exactly the distinct
\* non-null category values of the store.
C24_CategoryInEnumeration ==
    /\ \A r \in store : r.category = None \/ r.category[1] \in Categories
    /\ GetAllCategories(store) =
          {r.category[1] : r \in {x \in store : x.category # None}}

(***************************************************************************)
(* Claims about the import under SpecImport.                               *)
(***************************************************************************)

\* C1: for a record list extract produces and a store holding none of its
\* keys, the first insert_transactions call returns the length of the list,
\* and a second call with the same list returns 0 and leaves the stored rows
\* unchanged.
C1_IdempotentImport ==
    \A rows \in ImportFiles :
        LET transactions == Extract(rows).transactions
            first == InsertTransactionsResult(store, transactions)
            second == InsertTransactionsResult(first.store, transactions)
        IN  (Extract(rows).raised = "none" /\ Fresh(store, transactions)) =>
                /\ first.ret = Len(transactions)
                /\ second.ret = 0
                /\ second.store = first.store

\* a statement of one record or more has been imported into a store that
\* already held all its keys: nothing was inserted
C1_Witness ==
    /\ last.op = "process"
    /\ last.raised = "none"
    /\ last.ret.extracted >= 2
    /\ last.ret.inserted = 0

\* C3: insert_transactions changes and removes no row that was stored before
\* the call, also when an incoming record has the key of a stored row and
\* differs from it in other fields; the rows it adds are as many as it
\* returns.
C3_InsertKeepsExistingRows ==
    [][(last'.op = "process" /\ ~last'.annotate) =>
        /\ store \subseteq store'
        /\ Cardinality(store') = Cardinality(store) + last'.ret.inserted]_vars

\* an import met a stored row with the key of one of its records and other
\* field values, and the row is still stored
C3_Witness ==
    /\ last.op = "process"
    /\ ~last.annotate
    /\ last.clash
    /\ last.ret.inserted < last.ret.extracted
    /\ store # {}

\* the least index of a row whose first cell contains "Booking Date"
FirstMarked(rows) ==
    LET marked == {i \in 1..Len(rows) :
                      rows[i] # <<>> /\ ContainsBookingDate(rows[i][1])}
    IN  IF marked = {} THEN 0
        ELSE CHOOSE i \in marked : \A j \in marked : i <= j

\* C9: extract takes the first row whose first cell contains "Booking Date"
\* as the header and makes records only from the rows after it; without such
\* a row extract raises and returns no record, process never calls the
\* store's insert and the store is unchanged.
C9_HeaderOrFormatError ==
    \A rows \in ImportFiles, mode \in Modes :
        LET h == FirstMarked(rows)
            p == ProcessResult(store, rows, mode.annotate, mode.llm)
        IN  /\ HeaderIdx(rows, 1) = h
            /\ h = 0 =>
                  /\ Extract(rows).raised = "ValueError"
                  /\ Extract(rows).transactions = <<>>
                  /\ p.raised = "ValueError"
                  /\ ~p.insert_called
                  /\ p.store = store
            /\ h > 0 =>
                  /\ Extract(rows).raised = "none"
                  /\ Extract(rows) =
                        Extract(<<HeaderRow>> \o SubSeq(rows, h + 1, Len(rows)))
                  /\ p.insert_called

\* a statement without header row was handed to process on a store that
\* holds rows: the error came out and insert was not called
C9_Witness ==
    /\ last.op = "process"
    /\ last.raised = "ValueError"
    /\ ~last.insert_called
    /\ store # {}

C21_ConfigurationErrorSurfaced ==
    (/\ last.op = "process" /\ last.annotate /\ last.llm = "no_key"
     /\ last.insert_called
     /\ \E r \in store : r.description = None \/ r.category = None) =>
        /\ last.raised = "ValueError"
        /\ Cardinality(store) >= last.ret.inserted

(***************************************************************************)
(* SpecExtract: extract on every statement of up to MaxFileRows rows.      *)
(***************************************************************************)

BlankLine == <<>>

SummaryRow == <<"", "", "", "Closing Balance", "", "", "PKR 900.00">>

SpacesRow == <<"   ">>

BadBookingDateRow ==
    <<"2024-01-05", "05 Jan 2024", "", "Payment STAN (123456)", "100.00", "", "PKR 900.00">>

BadValueDateRow ==
    <<"05 Jan 2024", "n/a", "", "Payment STAN (123456)", "100.00", "", "PKR 900.00">>

OneColumnRow == <<"05 Jan 2024">>

TwoColumnRow == <<" 05 Jan 2024 ", "06 Jan 2024">>

BadAmountRow ==
    <<"06 Jan 2024", "06 Jan 2024", "", "POS STAN(777)", "-", "1.2.3", "n/a">>

StatementRows ==
    {BlankLine, SummaryRow, SpacesRow, HeaderRow, PreambleRow, PaymentRow,
     TaxRow, SalaryRow, BadBookingDateRow, BadValueDateRow, OneColumnRow,
     TwoColumnRow, BadAmountRow}

StatementFiles == SeqsUpTo(StatementRows, MaxFileRows)

\* a statement handed to extract, and the call
InitExtract ==
    /\ store = {}
    /\ last \in {[op |-> "open", csv |-> rows] : rows \in StatementFiles}

ExtractCall ==
    LET r == Extract(last.csv)
    IN  /\ last.op = "open"
        /\ store' = store
        /\ last' = [op |-> "extract", csv |-> last.csv, raised |-> r.raised,
                    transactions |-> r.transactions]

NextExtract == ExtractCall

SpecExtract == InitExtract /\ [][NextExtract]_vars

\* a row after the header that is neither blank nor malformed: a first cell
\* with text, a second column, and two dates of the form "05 Jan 2024"
WellFormed(row) ==
    /\ Len(row) >= 2
    /\ Strip(row[1]) # ""
    /\ Strptime(Strip(row[1])) # None
    /\ Strptime(Strip(row[2])) # None

WellFormedAfterHeader(rows) ==
    {i \in (FirstMarked(rows) + 1)..Len(rows) : WellFormed(rows[i])}

\* C10: on a statement with a header row, extract raises nothing, omits every
\* row after the header that is blank (no cells, or an empty or blank first
\* cell) or malformed (a date that does not parse, fewer than two columns),
\* and returns a record for every other row.
C10_BadRowsSkipped ==
    (last.op = "extract" /\ FirstMarked(last.csv) > 0) =>
        /\ last.raised = "none"
        /\ Len(last.transactions) = Cardinality(WellFormedAfterHeader(last.csv))

\* the booking day of a well-formed row
BookingDay(row) == Strptime(Strip(row[1]))[1]

\* C11: in the list one extract call returns, the records of each booking
\* day carry day_order_id 1, 2, ..., k in file order, k being the number of
\* rows of that day that parse; a skipped row takes no day_order_id, and the
\* value follows from the booking day and the position alone.
C11_DayOrderAssignment ==
    (last.op = "extract" /\ last.raised = "none") =>
        LET t == last.transactions
        IN  /\ \A i \in 1..Len(t) :
                  t[i].day_order_id =
                      Cardinality({j \in 1..i :
                          t[j].booking_date_time = t[i].booking_date_time})
            /\ \A d \in {20240105, 20240106} :
                  Cardinality({i \in 1..Len(t) : t[i].booking_date_time = d}) =
                  Cardinality({i \in WellFormedAfterHeader(last.csv) :
                                  BookingDay(last.csv[i]) = d})

\* a row of 5 Jan that does not parse stands before a row of 5 Jan that
\* does, and the record of the latter has day_order_id 1
C11_Witness ==
    /\ last.op = "extract"
    /\ last.raised = "none"
    /\ Len(last.csv) = 3
    /\ last.csv[2] = BadValueDateRow
    /\ WellFormed(last.csv[3])
    /\ BookingDay(last.csv[3]) = 20240105
    /\ Len(last.transactions) = 1
    /\ last.transactions[1].day_order_id = 1


\* an amount cell that is blank or a number once the other characters are
\* stripped
AmountParses(value) ==
    \/ value = ""
    \/ Strip(value) = ""
    \/ Cleaned(value) = ""
    \/ Float(Cleaned(value)) # None

\* the debit, credit and balance cells the row has all parse
AmountsParse(row) ==
    \A i \in {5, 6, 7} : i <= Len(row) => AmountParses(row[i])

\* C19: a row after the header with valid dates whose debit, credit or
\* balance cell is no number once the non-numeric characters are stripped
\* (a lone "-", "1.2.3") is left out of the list extract returns, and the
\* caller sees no error.
C19_BadAmountRowOmitted ==
    (last.op = "extract" /\ FirstMarked(last.csv) > 0
        /\ \A i \in 1..Len(last.csv) : last.csv[i] # BlankLine) =>
        /\ last.raised = "none"
        /\ Len(last.transactions) =
              Cardinality({i \in WellFormedAfterHeader(last.csv) :
                              AmountsParse(last.csv[i])})

(***************************************************************************)
(* SpecRead: statements imported, rows annotated and re-keyed by updates,  *)
(* and the table read page by page.                                        *)
(***************************************************************************)

ReadFiles ==
    {<<HeaderRow, PaymentRow, TaxRow>>, <<HeaderRow, SalaryRow, SalaryRow>>}

ReadUpdates ==
    {[description |-> Some("Lunch at cafe"), originator_name |-> Some("ACME Corp"),
      category |-> Some("Food")],
     [day_order_id |-> 1]}

OptionalOf(S) == {None} \cup {Some(v) : v \in S}

\* the optional filters, of which a query supplies at most MaxFilters
Filters ==
    {f \in [start_date : OptionalOf({20240106}),
            end_date : OptionalOf({20240105}),
            category : OptionalOf({"Food"}),
            custom_name : OptionalOf({"LUNCH"}),
            name : OptionalOf({"acme"}),
            transaction_id : OptionalOf({1})] :
        Cardinality({k \in DOMAIN f : f[k] # None}) <= MaxFilters}

Pages == 1..MaxRows

PageSizes == OptionalOf(1..MaxPageSize)

Query(f, page, page_size, include_taxes_nested, only_annotated) ==
    [page |-> page, page_size |-> page_size,
     start_date |-> f.start_date, end_date |-> f.end_date,
     category |-> f.category, custom_name |-> f.custom_name,
     name |-> f.name, transaction_id |-> f.transaction_id,
     include_taxes_nested |-> include_taxes_nested,
     only_annotated |-> only_annotated]

Queries ==
    {Query(f, page, page_size, nested, annotated) :
        f \in Filters, page \in Pages, page_size \in PageSizes,
        nested \in BOOLEAN, annotated \in BOOLEAN}

Ties == {"asc", "desc"}

\* the tables the imports and updates above lead to, of at most MaxRows rows
ReadStep(S) ==
    S \cup
    {ProcessResult(db, rows, FALSE, "no_key").store : db \in S, rows \in ReadFiles} \cup
    {UpdateTransactionByIdResult(db, transaction_id, updates).store :
        db \in S, transaction_id \in IdSet, updates \in ReadUpdates}

RECURSIVE ReadClosure(_)
ReadClosure(S) ==
    LET T == {db \in ReadStep(S) : Cardinality(db) <= MaxRows}
    IN  IF T = S THEN S ELSE ReadClosure(T)

ReadStores == ReadClosure({{}})

\* a table the service has been brought to, and one read of it
InitRead ==
    /\ store \in ReadStores
    /\ last = [op |-> "init"]

Read(q, tie) ==
    LET r == ReadTransactions(store, q, tie)
    IN  /\ store' = store
        /\ last' = [op |-> "read", q |-> q, tie |-> tie, result |-> r]

\* the order of a tie shows only on a table with two rows of one key
TiesOf(db) ==
    IF \A a, b \in db :
          (a.booking_date_time = b.booking_date_time
              /\ a.day_order_id = b.day_order_id) => a = b
    THEN {"asc"}
    ELSE Ties

NextRead == last.op = "init" /\ \E q \in Queries, tie \in TiesOf(store) : Read(q, tie)

SpecRead == InitRead /\ [][NextRead]_vars

(***************************************************************************)
(* Claims about read_transactions under SpecRead.                          *)
(***************************************************************************)

CeilDiv(a, b) == IF a % b = 0 THEN a \div b ELSE (a \div b) + 1

\* C4: for any filters, page >= 1 and page_size >= 1, total_pages is
\* ceil(total / page_size), and 1 when total is 0; the page holds exactly
\* min(page_size, max(0, total - (page-1)*page_size)) records; a page beyond
\* total_pages is empty.
C4_Pagination ==
    last.op = "read" =>
        LET r == last.result
            rest == r.total - (r.page - 1) * r.page_size
        IN  /\ r.total_pages = IF r.total = 0 THEN 1 ELSE CeilDiv(r.total, r.page_size)
            /\ Len(r.transactions) = Min(r.page_size, IF rest > 0 THEN rest ELSE 0)
            /\ r.page > r.total_pages => r.transactions = <<>>

\* the transactions of pages 1..n of the query, one after the other
RECURSIVE PagesUpTo(_, _, _, _)
PagesUpTo(db, q, tie, n) ==
    IF n = 0 THEN <<>>
    ELSE PagesUpTo(db, q, tie, n - 1) \o
         ReadTransactions(db, [q EXCEPT !.page = n], tie).transactions

\* booking_date_time descending, and day_order_id descending within one
\* booking_date_time
Descending(records) ==
    \A i, j \in 1..Len(records) :
        i < j =>
            \/ records[i].txn.booking_date_time > records[j].txn.booking_date_time
            \/ /\ records[i].txn.booking_date_time = records[j].txn.booking_date_time
               /\ records[i].txn.day_order_id >= records[j].txn.day_order_id

\* C5: the records of a page, and of pages 1, 2, ... of one query on an
\* unchanged store taken together, are in descending booking_date_time order
\* and, within one booking_date_time, in descending day_order_id order; pages
\* 1..total_pages hold each matching primary row exactly once.
C5_ReadOrdering ==
    last.op = "read" =>
        LET all == PagesUpTo(store, last.q, last.tie, last.result.total_pages)
            matching == {r \in store : QueryMatches(r, last.q)}
        IN  /\ Descending(last.result.transactions)
            /\ Descending(all)
            /\ {all[i].txn : i \in 1..Len(all)} = matching
            /\ Len(all) = Cardinality(matching)

\* a first page of two records of one booking day, of a query with a second
\* page
C5_Witness ==
    /\ last.op = "read"
    /\ last.q.page = 1
    /\ last.result.total_pages = 2
    /\ Len(last.result.transactions) = 2
    /\ last.result.transactions[1].txn.booking_date_time =
          last.result.transactions[2].txn.booking_date_time
    /\ last.result.transactions[1].txn.day_order_id >
          last.result.transactions[2].txn.day_order_id

\* C6: with include_taxes_nested no record with is_taxes is a primary record;
\* a primary record with a non-empty stan_id has as related_taxes all stored
\* rows with is_taxes and that stan_id, whatever the date range and the
\* other filters; a primary record without stan_id has none.
C6_TaxNesting ==
    (last.op = "read" /\ last.q.include_taxes_nested) =>
        \A i \in 1..Len(last.result.transactions) :
            LET rec == last.result.transactions[i]
            IN  /\ rec.txn.is_taxes = FALSE
                /\ (rec.txn.stan_id # None /\ rec.txn.stan_id # Some("")) =>
                      rec.related_taxes =
                          {t \in store : t.is_taxes = TRUE /\ t.stan_id = rec.txn.stan_id}
                /\ (rec.txn.stan_id = None \/ rec.txn.stan_id = Some("")) =>
                      rec.related_taxes = {}

\* a read up to 5 Jan lists a payment with the tax row of 6 Jan under it, and
\* a record without stan_id with nothing under it
C6_Witness ==
    /\ last.op = "read"
    /\ last.q.include_taxes_nested
    /\ last.q.end_date = Some(20240105)
    /\ \E i \in 1..Len(last.result.transactions) :
          \E t \in last.result.transactions[i].related_taxes :
              t.booking_date_time > 20240105

\* C18: for every combination of the optional filters the returned total is
\* the number of stored primary rows that satisfy all supplied filters, which
\* is the number of rows on all pages of the query taken together.
C18_TotalMatchesFilters ==
    last.op = "read" =>
        /\ last.result.total =
              Cardinality({r \in store : QueryMatches(r, last.q)})
        /\ last.result.total =
              Len(PagesUpTo(store, last.q, last.tie, last.result.total_pages))

(***************************************************************************)
(* SpecAnalytics: statements with debits and credits of either sign        *)
(* imported, rows categorised, and one analytics call on the table.        *)
(***************************************************************************)

RefundRow ==
    <<"05 Jan 2024", "05 Jan 2024", "", "Reversal", "-100.00", "", "PKR 900.00">>

FeeWaivedRow ==
    <<"06 Jan 2024", "06 Jan 2024", "", "Fee waived", "0.00", "", "PKR 900.00">>

GroceryRow ==
    <<"06 Jan 2024", "06 Jan 2024", "", "Grocery", "249.00", "", "PKR 900.00">>

ChargebackRow ==
    <<"06 Jan 2024", "06 Jan 2024", "", "Chargeback", "", "-100.00", "PKR 900.00">>

AnalyticsFiles ==
    {<<HeaderRow, PaymentRow, SalaryRow>>,
     <<HeaderRow, RefundRow, FeeWaivedRow>>,
     <<HeaderRow, PaymentRow, RefundRow>>,
     <<HeaderRow, PaymentRow, FeeWaivedRow>>,
     <<HeaderRow, GroceryRow>>,
     <<HeaderRow, ChargebackRow>>}

\* the tables the imports and categorisations lead to, of at most MaxRows rows
AnalyticsStep(S) ==
    S \cup
    {ProcessResult(db, rows, FALSE, "no_key").store : db \in S, rows \in AnalyticsFiles} \cup
    {UpdateTransactionByIdResult(db, transaction_id, [category |-> Some("Food")]).store :
        db \in S, transaction_id \in IdSet}

RECURSIVE AnalyticsClosure(_)
AnalyticsClosure(S) ==
    LET T == {db \in AnalyticsStep(S) : Cardinality(db) <= MaxRows}
    IN  IF T = S THEN S ELSE AnalyticsClosure(T)

AnalyticsStores == AnalyticsClosure({{}})

StartDates == OptionalOf({20240106})
EndDates == OptionalOf({20240105})

\* the months asked for and the days the clock may show
Months == {<<2024, 1>>, <<2024, 2>>}
Todays == {20231215, 20240105, 20240131, 20240201, 20240315}

InitAnalytics ==
    /\ store \in AnalyticsStores
    /\ last = [op |-> "init"]

IncomeExpenditureRatio(start_date, end_date) ==
    /\ store' = store
    /\ last' = [op |-> "ratio", start_date |-> start_date, end_date |-> end_date,
                raised |-> "none",
                ret |-> GetIncomeExpenditureRatio(store, start_date, end_date)]

PercentileBreakdown(start_date, end_date) ==
    /\ store' = store
    /\ last' = [op |-> "breakdown", start_date |-> start_date, end_date |-> end_date,
                raised |-> "none",
                ret |-> GetPercentileBreakdown(store, start_date, end_date)]

ExpenditureStats(start_date, end_date) ==
    /\ store' = store
    /\ last' = [op |-> "stats", start_date |-> start_date, end_date |-> end_date,
                raised |-> "none",
                ret |-> GetExpenditureStats(store, start_date, end_date)]

MonthlyForecast(year, month, today) ==
    /\ store' = store
    /\ last' = [op |-> "forecast", year |-> year, month |-> month, today |-> today,
                raised |-> "none",
                ret |-> GetMonthlyForecast(store, year, month, today)]

NextAnalytics ==
    /\ last.op = "init"
    /\ \/ \E start_date \in StartDates, end_date \in EndDates :
             IncomeExpenditureRatio(start_date, end_date)
       \/ \E start_date \in StartDates, end_date \in EndDates :
             PercentileBreakdown(start_date, end_date)
       \/ \E start_date \in StartDates, end_date \in EndDates :
             ExpenditureStats(start_date, end_date)
       \/ \E m \in Months, today \in Todays : MonthlyForecast(m[1], m[2], today)

SpecAnalytics == InitAnalytics /\ [][NextAnalytics]_vars

(***************************************************************************)
(* Claims about the analytics under SpecAnalytics.                         *)
(***************************************************************************)

\* the rows of the store within the inclusive date bounds of the last call
Bounded ==
    {r \in store :
        /\ last.start_date # None => r.booking_date_time >= last.start_date[1]
        /\ last.end_date # None => r.booking_date_time <= last.end_date[1]}

\* the non-null values of a field over the bounded rows, added up
TotalOf(field) == SumOf({r \in Bounded : r[field] # None}, field)

\* C12: get_income_expenditure_ratio returns +infinity when total
\* expenditure is 0 and total income > 0, 0.0 when both are 0, and otherwise
\* total income divided by total expenditure; it raises no division error.
C12_RatioEdgeCases ==
    last.op = "ratio" =>
        /\ last.raised = "none"
        /\ (TotalOf("debit") = 0 /\ TotalOf("credit") > 0) => last.ret = Infinity
        /\ (TotalOf("debit") = 0 /\ TotalOf("credit") = 0) => last.ret = Zero
        /\ ~(TotalOf("debit") = 0 /\ TotalOf("credit") >= 0) =>
              /\ TotalOf("debit") # 0
              /\ last.ret = Quotient(TotalOf("credit"), TotalOf("debit"))

\* C12 as the code has it: +infinity when total expenditure is 0 and total
\* income > 0, 0.0 when total expenditure is 0 and total income is 0 or
\* negative, and the quotient whenever total expenditure is not 0.
C12_RatioByCases ==
    last.op = "ratio" =>
        /\ last.raised = "none"
        /\ (TotalOf("debit") = 0 /\ TotalOf("credit") > 0) => last.ret = Infinity
        /\ (TotalOf("debit") = 0 /\ TotalOf("credit") <= 0) => last.ret = Zero
        /\ TotalOf("debit") # 0 =>
              last.ret = Quotient(TotalOf("credit"), TotalOf("debit"))

\* the ratio was asked of a table with no expenditure and a negative income
C12_Witness ==
    /\ last.op = "ratio"
    /\ TotalOf("debit") = 0
    /\ TotalOf("credit") < 0
    /\ last.ret = Zero

\* the sum of two fractions
AddQ(p, q) == Quotient(p.num * q.den + q.num * p.den, p.den * q.den)

RECURSIVE SumShares(_, _)
SumShares(shares, cats) ==
    IF cats = {} THEN Zero
    ELSE LET c == CHOOSE x \in cats : TRUE
         IN  AddQ(shares[c], SumShares(shares, cats \ {c}))

\* every share of the grouping lies between 0 and 100, and the shares of a
\* grouping that is not empty add up to 100
SharesComplete(shares) ==
    /\ \A c \in DOMAIN shares :
          /\ shares[c].num >= 0
          /\ shares[c].num <= 100 * shares[c].den
    /\ DOMAIN shares # {} =>
          SumShares(shares, DOMAIN shares) = [num |-> 100, den |-> 1]

\* C13: on every table reached through the parser and the store operations
\* and for any date bounds, each share of expenditure_by_category and of
\* income_by_category lies between 0 and 100, and the shares of a grouping
\* that is not empty add up to 100.
C13_SharesBoundedComplete ==
    last.op = "breakdown" =>
        /\ SharesComplete(last.ret.expenditure_by_category)
        /\ SharesComplete(last.ret.income_by_category)

\* C25: the total_expenditure and total_income that get_percentile_breakdown
\* returns equal what get_total_expenditure and get_total_income return for
\* the same bounds on the same store, also when no debit or no credit lies in
\* range.
C25_BreakdownTotalsAgree ==
    last.op = "breakdown" =>
        /\ last.ret.total_expenditure =
              GetTotalExpenditure(store, last.start_date, last.end_date)
        /\ last.ret.total_income =
              GetTotalIncome(store, last.start_date, last.end_date)

\* the bounded rows with a debit, a debit of 0 included
WithDebit == {r \in Bounded : r.debit # None}

\* C14: get_expenditure_stats returns as min, max and mean the minimum,
\* maximum and arithmetic mean of the debits of all stored transactions with
\* a non-null debit (a debit of 0 included) and a booking_date_time within
\* the bounds; with exactly one such debit std_dev is 0; nothing is raised.
C14_StatsOverNonNullDebits ==
    (last.op = "stats" /\ WithDebit # {}) =>
        /\ last.raised = "none"
        /\ \A r \in WithDebit : last.ret.min.num <= r.debit[1] * last.ret.min.den
        /\ \E r \in WithDebit : last.ret.min = Quotient(r.debit[1], 1)
        /\ \A r \in WithDebit : last.ret.max.num >= r.debit[1] * last.ret.max.den
        /\ \E r \in WithDebit : last.ret.max = Quotient(r.debit[1], 1)
        /\ last.ret.mean = Quotient(SumOf(WithDebit, "debit"), Cardinality(WithDebit))
        /\ Cardinality(WithDebit) = 1 => last.ret.std_dev = Zero

\* the length of a month by the calendar
DaysInMonth(year, month) ==
    IF month = 2
    THEN IF year % 4 = 0 /\ (year % 100 # 0 \/ year % 400 = 0) THEN 29 ELSE 28
    ELSE IF month \in {4, 6, 9, 11} THEN 30 ELSE 31

\* what the claim says of days_elapsed, daily_mean and the exact value of
\* forecasted_total for the forecast call in last
ForecastByDays ==
    LET ret == last.ret
        length == DaysInMonth(last.year, last.month)
        inside == YearOf(last.today) = last.year /\ MonthOf(last.today) = last.month
        after == last.today > Date(last.year, last.month, length)
        before == last.today < Date(last.year, last.month, 1)
    IN  /\ last.raised = "none"
        /\ ret.days_in_month = length
        /\ after => ret.days_elapsed = length
        /\ inside => ret.days_elapsed = DayOf(last.today)
        /\ before => ret.days_elapsed = 0
        /\ ret.current_total =
              SumOf({r \in store : /\ r.debit # None
                                   /\ YearOf(r.booking_date_time) = last.year
                                   /\ MonthOf(r.booking_date_time) = last.month},
                    "debit")
        /\ ret.daily_mean = IF ret.days_elapsed = 0 THEN Zero
                            ELSE Quotient(ret.current_total, ret.days_elapsed)
        /\ ret.forecasted_total.num * ret.daily_mean.den =
              ret.daily_mean.num * length * ret.forecasted_total.den
        /\ before => (ret.daily_mean = Zero /\ ret.forecasted_total.num = 0
                        /\ ret.forecasted_total.ulps = 0)

\* C15: get_monthly_forecast sets days_elapsed to the month's length when
\* today is after the month's end, to today's day of the month inside the
\* month and to 0 for a future month; daily_mean is current_total /
\* days_elapsed (0 when days_elapsed is 0) and forecasted_total is
\* daily_mean * days_in_month, so that for a month fully in the past
\* forecasted_total equals current_total and for a future month both are 0.
C15_Forecast ==
    last.op = "forecast" =>
        /\ ForecastByDays
        /\ last.today > Date(last.year, last.month,
                             DaysInMonth(last.year, last.month)) =>
              last.ret.forecasted_total =
                  [num |-> last.ret.current_total, den |-> 1, ulps |-> 0]

\* C15 as the code has it: the same, with forecasted_total for a month fully
\* in the past being the double (current_total / days_in_month) *
\* days_in_month, which is current_total or lies one unit in the last place
\* off it.
C15_ForecastRounded ==
    last.op = "forecast" =>
        /\ ForecastByDays
        /\ last.today > Date(last.year, last.month,
                             DaysInMonth(last.year, last.month)) =>
              /\ last.ret.forecasted_total.num = last.ret.current_total
              /\ last.ret.forecasted_total.den = 1
              /\ last.ret.forecasted_total.ulps \in {-1, 0, 1}

\* the forecast of a past month whose debits come to 249.00 is not 249.0
C15_Witness ==
    /\ last.op = "forecast"
    /\ last.today > Date(last.year, last.month, DaysInMonth(last.year, last.month))
    /\ last.ret.days_elapsed = 31
    /\ last.ret.current_total = 24900
    /\ last.ret.forecasted_total.ulps # 0

(***************************************************************************)
(* SpecSessions: the sessions of the operations.  Every operation wraps    *)
(* its work in `with get_session() as session:` blocks; a call is followed *)
(* from block to block, last.open counting the sessions that are open.     *)
(***************************************************************************)

\* Session(engine), entered by the with statement
GetSession(open) == open + 1

\* a with block whose exit leaves the session open, which
\* C17_ScopedSessionRelease tells from the exit of the code
CloseSessionNever(open) == open

\* Session.__exit__ closes the session however the block is left
CloseSession(open) == open - 1

SessionUpdates == {[id |-> 1], [category |-> Some("Food")]}

SessionBatches ==
    {<<r>> : r \in StoreRecords} \cup {<<r, KeylessRecord>> : r \in StoreRecords}

SessionCalls ==
    {[fn |-> "insert_transactions", transactions |-> t] : t \in SessionBatches}
    \cup {[fn |-> "update_transaction_by_id", transaction_id |-> i, updates |-> u]
             : i \in 0..MaxId, u \in SessionUpdates}
    \cup {[fn |-> "update_transactions_bulk", transaction_ids |-> <<1, i>>,
           updates |-> u] : i \in IdSet, u \in SessionUpdates}
    \cup {[fn |-> "delete_transaction", transaction_id |-> i] : i \in 0..MaxId}
    \cup {[fn |-> f] : f \in {"get_total_expenditure", "get_expenditure_stats",
                              "get_income_expenditure_ratio"}}
    \cup {[fn |-> "annotate_all_unannotated", llm |-> l] : l \in LLMs}

\* the with blocks a call runs through when nothing is raised:
\* get_income_expenditure_ratio calls get_total_income and then
\* get_total_expenditure; annotate_all_unannotated leaves its own block
\* before it calls annotate_batch
Blocks(call) ==
    IF call.fn \in {"get_income_expenditure_ratio", "annotate_all_unannotated"}
    THEN 2 ELSE 1

\* how the body of the call's block leaves it and what it has written
BlockResult(db, call, block) ==
    IF block < Blocks(call)
    THEN [store |-> db, raised |-> "none", path |-> "next block"]
    ELSE IF call.fn = "insert_transactions"
    THEN LET r == InsertTransactionsResult(db, call.transactions)
         IN  [store |-> r.store, raised |-> r.raised,
              path |-> IF r.raised # "none" THEN "raise" ELSE "return"]
    ELSE IF call.fn = "update_transaction_by_id"
    THEN LET r == UpdateTransactionByIdResult(db, call.transaction_id,
                                              call.updates)
         IN  [store |-> r.store, raised |-> r.raised,
              path |-> IF call.transaction_id \notin Ids(db)
                       THEN "early return"
                       ELSE IF r.raised # "none" THEN "raise" ELSE "return"]
    ELSE IF call.fn = "update_transactions_bulk"
    THEN LET r == UpdateTransactionsBulkResult(db, call.transaction_ids,
                                               call.updates)
         IN  [store |-> r.store, raised |-> r.raised,
              path |-> IF r.raised # "none" THEN "raise" ELSE "return"]
    ELSE IF call.fn = "delete_transaction"
    THEN LET r == DeleteTransactionResult(db, call.transaction_id)
         IN  [store |-> r.store, raised |-> r.raised,
              path |-> IF call.transaction_id \notin Ids(db)
                       THEN "early return" ELSE "return"]
    ELSE IF call.fn = "get_expenditure_stats"
    THEN [store |-> db, raised |-> "none",
          path |-> IF {r \in db : r.debit # None /\ r.debit[1] # 0} = {}
                   THEN "early return" ELSE "return"]
    ELSE IF call.fn = "annotate_all_unannotated"
    THEN LET r == AnnotateAllUnannotated(db, call.llm)
         IN  [store |-> r.store, raised |-> r.raised,
              path |-> IF r.raised # "none" THEN "raise" ELSE "return"]
    ELSE [store |-> db, raised |-> "none", path |-> "return"]

InitSessions ==
    /\ store = {}
    /\ last = [op |-> "idle", open |-> 0, before |-> 0, block |-> 0,
               call |-> [fn |-> "none"], path |-> "none", raised |-> "none"]

\* a call enters its first with block
SessionCall(call) ==
    /\ last.op = "idle"
    /\ call.fn = "insert_transactions" => Room(call.transactions, MaxId)
    /\ store' = store
    /\ last' = [op |-> "in_session", open |-> GetSession(last.open),
                before |-> last.open, block |-> 1, call |-> call,
                path |-> "none", raised |-> "none"]

\* the block is left: by its end, a return or an exception
SessionExit ==
    /\ last.op = "in_session"
    /\ LET r == BlockResult(store, last.call, last.block)
       IN  /\ store' = r.store
           /\ last' = [last EXCEPT
                  !.op = IF r.path = "next block" THEN "between" ELSE "idle",
                  !.open = CloseSession(last.open),
                  !.path = r.path,
                  !.raised = r.raised]

\* the call goes on into its next with block
SessionNext ==
    /\ last.op = "between"
    /\ store' = store
    /\ last' = [last EXCEPT !.op = "in_session", !.block = @ + 1,
                            !.open = GetSession(last.open)]

NextSessions ==
    \/ \E call \in SessionCalls : SessionCall(call)
    \/ SessionExit
    \/ SessionNext

SpecSessions == InitSessions /\ [][NextSessions]_vars

\* C17: every session an operation opens is closed before the operation
\* returns or raises: inside a with block one session more is open than
\* before the call, and between blocks and on every exit path (return, early
\* return on not-found, exception in the body) as many as before the call.
C17_ScopedSessionRelease ==
    /\ last.op = "in_session" => last.open = last.before + 1
    /\ last.op \in {"between", "idle"} => last.open = last.before

\* update_transaction_by_id has raised IntegrityError inside its block
C17_Witness ==
    /\ last.op = "idle"
    /\ last.call.fn = "update_transaction_by_id"
    /\ last.path = "raise"
    /\ last.open = 0

(***************************************************************************)
(* SpecConcurrent: two insert_transactions calls in sessions of their own, *)
(* statement by statement.  last.calls[c] is where call c stands:          *)
(* existing is the answer of its last lookup, pending the rows it has      *)
(* added and not flushed, flushed the rows it has written and not          *)
(* committed.  last.writer is the call that holds SQLite's write lock (0:  *)
(* none): a flush takes the lock and the commit gives it up, and a call    *)
(* that needs the lock while the other holds it waits.                     *)
(***************************************************************************)

Callers == {1, 2}

\* the record lists of the statements two imports can bring
ConcurrentBatches ==
    {Extract(f).transactions : f \in SeqsUpTo({HeaderRow, PaymentRow}, MaxFileRows)}
        \ {<<>>}

\* the rows a flush writes for the pending records, with the rowids the
\* table gives them
RECURSIVE FlushRows(_, _, _)
FlushRows(db, pending, i) ==
    IF i > Len(pending) THEN {}
    ELSE LET row == Transaction(pending[i], NextId(db))
         IN  {row} \cup FlushRows(db \cup {row}, pending, i + 1)

\* session.commit(): the pending rows are flushed and all rows the session
\* has written become part of the table
CommitRows(db, flushed, pending) ==
    db \cup flushed \cup FlushRows(db \cup flushed, pending, 1)

InitConcurrent ==
    /\ store = {}
    /\ \E batches \in [Callers -> ConcurrentBatches] :
          last = [op |-> "concurrent", writer |-> 0,
                  calls |-> [c \in Callers |->
                      [pc |-> "check", transactions |-> batches[c], i |-> 1,
                       existing |-> FALSE, pending |-> <<>>, flushed |-> {},
                       inserted |-> 0]]]

\* session.exec(select(...).where(...)).first() for record i: the session
\* autoflushes what it has added, then the query sees the committed rows and
\* the session's own
Check(c) ==
    LET call == last.calls[c]
        rows == FlushRows(store \cup call.flushed, call.pending, 1)
        seen == store \cup call.flushed \cup rows
    IN  /\ call.pc = "check"
        /\ call.pending # <<>> => last.writer \in {0, c}
        /\ store' = store
        /\ last' = [last EXCEPT
              !.writer = IF call.pending # <<>> THEN c ELSE @,
              !.calls[c] = [call EXCEPT
                  !.pc = "add",
                  !.existing = ExistingByKey(seen, call.transactions[call.i]) # {},
                  !.pending = <<>>,
                  !.flushed = call.flushed \cup rows]]

\* if not existing: session.add(Transaction(**txn_data)); inserted += 1
Add(c) ==
    LET call == last.calls[c]
    IN  /\ call.pc = "add"
        /\ store' = store
        /\ last' = [last EXCEPT !.calls[c] = [call EXCEPT
              !.pc = IF call.i < Len(call.transactions) THEN "check" ELSE "commit",
              !.i = call.i + 1,
              !.pending = IF call.existing THEN @
                          ELSE Append(@, call.transactions[call.i]),
              !.inserted = IF call.existing THEN @ ELSE @ + 1]]

\* session.commit(), and the call returns inserted
Commit(c) ==
    LET call == last.calls[c]
    IN  /\ call.pc = "commit"
        /\ last.writer \in {0, c}
        /\ store' = CommitRows(store, call.flushed, call.pending)
        /\ last' = [last EXCEPT
              !.writer = 0,
              !.calls[c] = [call EXCEPT !.pc = "done", !.pending = <<>>,
                                        !.flushed = {}]]

NextConcurrent ==
    \E c \in Callers : Check(c) \/ Add(c) \/ Commit(c)

SpecConcurrent == InitConcurrent /\ [][NextConcurrent]_vars

\* C22: after two concurrent insert_transactions calls have completed, the
\* store holds at most one row with each (booking_date_time, day_order_id)
\* key, and the two returned counts sum to the number of distinct new keys.
C22_UniqueUnderInterleaving ==
    (\A c \in Callers : last.calls[c].pc = "done") =>
        /\ \A a, b \in store : SameKey(a, b) => a = b
        /\ last.calls[1].inserted + last.calls[2].inserted =
              Cardinality({<<r.booking_date_time, r.day_order_id>> : r \in store})

(***************************************************************************)
(* SpecBatch: inserts of hand-built lists in which records may share a     *)
(* key, and deletes.                                                       *)
(***************************************************************************)

\* a record with the key of the first payment of 05 Jan 2024 and another
\* description
RepeatedKeyRecord ==
    [Extract(<<HeaderRow, PaymentRow>>).transactions[1] EXCEPT
        !.bank_statement_description = "POS STAN(123456)"]

\* the records of statements with payments and salaries, and the repeat
RepeatRecords ==
    RecordsOf(SeqsUpTo({HeaderRow, PaymentRow, SalaryRow}, MaxFileRows))
        \cup {RepeatedKeyRecord}

RepeatBatches == SeqsUpTo(RepeatRecords, MaxBatch)

NextBatch ==
    \/ \E transactions \in RepeatBatches :
          Room(transactions, MaxId) /\ InsertTransactions(transactions)
    \/ \E transaction_id \in 0..MaxId : DeleteTransaction(transaction_id)

SpecBatch == Init /\ [][NextBatch]_vars

\* the first record of the list with the key of record i
FirstWithKey(transactions, i) ==
    CHOOSE j \in 1..i :
        /\ SameKey(transactions[j], transactions[i])
        /\ \A k \in 1..(j - 1) : ~SameKey(transactions[k], transactions[i])

\* C26: when one insert_transactions call receives records that share a key
\* which is not stored, only the first of them is inserted: the store then
\* holds exactly one row with that key, the row of the first record, and the
\* returned count counts each new key once.
C26_BatchDuplicatesDeduplicated ==
    [][last'.op = "insert" =>
        LET transactions == last'.transactions
            new == {i \in 1..Len(transactions) :
                       ExistingByKey(store, transactions[i]) = {}}
        IN  /\ last'.raised = "none"
            /\ \A i \in new :
                  LET rows == ExistingByKey(store', transactions[i])
                  IN  /\ Cardinality(rows) = 1
                      /\ \A r \in rows :
                            r = Transaction(
                                    transactions[FirstWithKey(transactions, i)],
                                    r.id)
            /\ last'.ret = Cardinality({<<transactions[i].booking_date_time,
                                          transactions[i].day_order_id>> : i \in new})
            /\ Cardinality(store') = Cardinality(store) + last'.ret]_vars

\* a list of two different records with one key went into the empty store,
\* and only the first is stored
C26_Witness ==
    /\ last.op = "insert"
    /\ Len(last.transactions) = 2
    /\ last.transactions[1] # last.transactions[2]
    /\ SameKey(last.transactions[1], last.transactions[2])
    /\ last.ret = 1
    /\ store = {Transaction(last.transactions[1], 1)}

====
